---- MODULE Spec2Model ----
(***************************************************************************)
(* Chicago open-data analysis: the SQLite base tables of FinalDB.db, the   *)
(* two dashboard view builders (load_socioeducation_dataset,               *)
(* load_crime_dataset), the income segmentation / top-N ranking of         *)
(* render_crime_hotspots_tab, and the batch report runner (run_analysis).  *)
(***************************************************************************)
EXTENDS Integers, Sequences, FiniteSets, TLC

\* ------------------------------------------------------------------------
\* Bounds of the model
\* ------------------------------------------------------------------------
MaxCensusRows == 2
MaxSchoolRows == 2
MaxCrimeRows == 2
MaxMainRows == 1
MaxRecords == 3
MaxTopN == 3
MaxRunRows == 1
MaxExtraCommunities == 3

\* run_analysis runs ten problems
NumProblems == 10

\* the hotspot table shows the first 15 groups
HotspotLimit == 15

VARIABLES
    CENSUS_DATA,             \* base table: [exists, rows]
    CHICAGO_PUBLIC_SCHOOLS,  \* base table: [exists, rows]
    CHICAGO_CRIME_DATA,      \* base table: [exists, rows]
    dpc,                     \* position of the dashboard
    socio_df,                \* result of load_socioeducation_dataset
    crime_df,                \* result of load_crime_dataset
    exception,               \* exception that escaped the dashboard call, or "none"
    st_errors,               \* messages shown with st.error, in order
    cache,                   \* st.cache_data: per cached call <<>> or <<its result>>
    hpc,                     \* position of render_crime_hotspots_tab
    filtered_crime,          \* its argument crime_df: the rows of the filtered frame
    income_threshold,        \* its argument income_threshold
    top_n,                   \* its argument top_n
    working_df,              \* the rows with their income_segment
    compare_df,              \* the rows of the Low and High segments
    grouped,                 \* incident count per (income_segment, primary_type)
    top_crimes,              \* the index of the top_n most frequent crime types
    grouped_top,             \* the rows of grouped that are charted
    st_warnings,             \* messages shown with st.warning, in order
    unknown_income_count,    \* the number of rows of the Unknown segment
    st_captions,             \* the excluded-record counts shown with st.caption
    hotspots,                \* the hotspot table: (community, segment) groups
    rpc,                     \* position of the batch report's main
    conn,                    \* self.conn: "None", "open" or "closed"
    query_num,               \* the problem run_analysis runs next
    results,                 \* result1 .. result10, as far as computed
    stdout,                  \* what the report printed, in order
    rexception,              \* exception that escaped the report's main, or "none"
    stored                   \* <<>>, or <<the datasets>> passed to the call of
                             \* store_data_to_db that has just returned

dbVars == <<CENSUS_DATA, CHICAGO_PUBLIC_SCHOOLS, CHICAGO_CRIME_DATA>>
dashVars == <<dpc, socio_df, crime_df, exception, st_errors, cache>>
hotVars == <<hpc, filtered_crime, income_threshold, top_n, working_df, compare_df,
             grouped, top_crimes, grouped_top, st_warnings, unknown_income_count,
             st_captions, hotspots>>
runVars == <<rpc, conn, query_num, results, stdout, rexception, stored>>
vars == <<dbVars, dashVars, hotVars, runVars>>

\* ------------------------------------------------------------------------
\* SQL / pandas values.  Every value has the same shape so that values of
\* different storage classes can be compared: t is the storage class,
\* n/d a number (d = 1 for integers), s the characters of a text.
\* ------------------------------------------------------------------------
NULL == [t |-> "null", n |-> 0, d |-> 1, s |-> <<>>]
IntV(k) == [t |-> "int", n |-> k, d |-> 1, s |-> <<>>]
TextV(cs) == [t |-> "text", n |-> 0, d |-> 1, s |-> cs]

RECURSIVE Gcd(_, _)
Gcd(a, b) == IF b = 0 THEN a ELSE Gcd(b, a % b)

\* a REAL, kept exact as a reduced fraction
RealV(num, den) ==
    LET g == Gcd(IF num < 0 THEN -num ELSE num, den)
    IN  [t |-> "real", n |-> num \div g, d |-> den \div g, s |-> <<>>]

IsNull(v) == v.t = "null"

Digits == {"0", "1", "2"}
DigitVal(c) == CASE c = "0" -> 0 [] c = "1" -> 1 [] c = "2" -> 2

\* the integer read from the longest prefix of digits, 0 when there is none
RECURSIVE IntegerPrefix(_, _)
IntegerPrefix(cs, acc) ==
    IF cs = <<>> \/ Head(cs) \notin Digits THEN acc
    ELSE IntegerPrefix(Tail(cs), 10 * acc + DigitVal(Head(cs)))

\* SQLite CAST(v AS INTEGER)
CastInteger(v) ==
    CASE v.t = "null" -> NULL
      [] v.t = "int"  -> v
      [] v.t = "real" -> IntV(v.n \div v.d)
      [] v.t = "text" -> IntV(IntegerPrefix(v.s, 0))

\* SQL a = b used as a join condition on two CAST results: NULL never matches
SqlEquals(a, b) == ~IsNull(a) /\ ~IsNull(b) /\ a = b

Coalesce(v, dflt) == IF IsNull(v) THEN dflt ELSE v

RECURSIVE LTrim(_)
LTrim(cs) == IF cs # <<>> /\ Head(cs) = " " THEN LTrim(Tail(cs)) ELSE cs
RECURSIVE RTrim(_)
RTrim(cs) ==
    IF cs # <<>> /\ cs[Len(cs)] = " " THEN RTrim(SubSeq(cs, 1, Len(cs) - 1)) ELSE cs
\* SQLite TRIM(text)
Trim(v) == TextV(RTrim(LTrim(v.s)))

AllDigits(cs) == \A i \in 1..Len(cs) : cs[i] \in Digits

\* pandas.to_numeric(errors="coerce") on one cell: a text is parsed as a whole,
\* what does not parse becomes NaN (null)
ToNumeric(v) ==
    CASE v.t = "text" -> IF v.s # <<>> /\ AllDigits(v.s)
                            THEN IntV(IntegerPrefix(v.s, 0)) ELSE NULL
      [] OTHER -> v

\* ------------------------------------------------------------------------
\* Tables and data frames
\* ------------------------------------------------------------------------
\* a base table of FinalDB.db: absent, or its rows in rowid order
AbsentTable == [exists |-> FALSE, rows |-> <<>>]
Table(rs) == [exists |-> TRUE, rows |-> rs]

\* pd.DataFrame(): no columns, no rows
EmptyDataFrame == [columns |-> {}, rows |-> <<>>]
DataFrame(cols, rs) == [columns |-> cols, rows |-> rs]
\* DataFrame.empty
IsEmpty(df) == df.columns = {} \/ df.rows = <<>>

SeqsUpTo(S, k) == UNION {[1..m -> S] : m \in 0..k}

\* the sequences that list every element of the finite set S once
Orderings(S) ==
    {f \in [1..Cardinality(S) -> S] : \A i, j \in DOMAIN f : i # j => f[i] # f[j]}

\* a run_query that swallows the failure: no st.error, an empty frame
run_query_SilentFailure(tables, cols, rs) ==
    IF \A tb \in tables : tb.exists
        THEN [failed |-> FALSE, df |-> DataFrame(cols, rs)]
        ELSE [failed |-> FALSE, df |-> EmptyDataFrame]

\* run_query: the frame pandas reads, or on any exception an st.error and an
\* empty frame without columns
run_query(tables, cols, rs) ==
    IF \A tb \in tables : tb.exists
        THEN [failed |-> FALSE, df |-> DataFrame(cols, rs)]
        ELSE [failed |-> TRUE, df |-> EmptyDataFrame]

\* LEFT JOIN of the rows L to the rows R, on being the pairs <<i, j>> of row
\* numbers that satisfy the ON clause: those pairs, and <<i, 0>> for a row of L
\* extended with nulls
LeftJoin(L, R, on) ==
    UNION { LET m == {j \in 1..Len(R) : <<i, j>> \in on}
            IN  IF m = {} THEN {<<i, 0>>} ELSE {<<i, j>> : j \in m}
          : i \in 1..Len(L) }

\* ------------------------------------------------------------------------
\* load_socioeducation_dataset
\* ------------------------------------------------------------------------
NullSchool ==
    [School_ID |-> NULL, COMMUNITY_AREA_NUMBER |-> NULL, SAFETY_SCORE |-> NULL,
     SCHOOL_TYPE |-> NULL]

\* ON CAST(s.COMMUNITY_AREA_NUMBER AS INTEGER) = CAST(c.COMMUNITY_AREA_NUMBER AS INTEGER)
SocioOn(c, s) ==
    SqlEquals(CastInteger(s.COMMUNITY_AREA_NUMBER), CastInteger(c.COMMUNITY_AREA_NUMBER))

\* a WHERE clause that forgets the blank-name test
SocioWhere_NoNameTest(c) == ~IsNull(c.COMMUNITY_AREA_NUMBER)

\* WHERE c.COMMUNITY_AREA_NUMBER IS NOT NULL AND TRIM(COALESCE(name, '')) <> ''
SocioWhere(c) ==
    /\ ~IsNull(c.COMMUNITY_AREA_NUMBER)
    /\ Trim(Coalesce(c.COMMUNITY_AREA_NAME, TextV(<<>>))) # TextV(<<>>)

\* GROUP BY CAST(number), name, hardship, poverty
SocioGroupKey(c) ==
    <<CastInteger(c.COMMUNITY_AREA_NUMBER), c.COMMUNITY_AREA_NAME,
      c.HARDSHIP_INDEX, c.PERCENT_HOUSEHOLDS_BELOW_POVERTY>>

RECURSIVE SumScores(_, _)
\* the sum of the SAFETY_SCORE of the school rows S[j] over the joined rows
\* <<i, j>> of ps
SumScores(S, ps) ==
    IF ps = {} THEN 0
    ELSE LET p == CHOOSE q \in ps : TRUE
         IN  S[p[2]].SAFETY_SCORE.n + SumScores(S, ps \ {p})

\* AVG(CASE WHEN s.SAFETY_SCORE IS NOT NULL THEN s.SAFETY_SCORE END) over the
\* joined rows ps of one group
AvgSafetyScore(S, ps) ==
    LET sch(p) == IF p[2] = 0 THEN NullSchool ELSE S[p[2]]
        nn == {p \in ps : ~IsNull(sch(p).SAFETY_SCORE)}
    IN  IF nn = {} THEN NULL ELSE RealV(SumScores(S, nn), Cardinality(nn))

\* COUNT(s.School_ID) over the joined rows ps of one group
SchoolCount(S, ps) ==
    LET sch(p) == IF p[2] = 0 THEN NullSchool ELSE S[p[2]]
    IN  IntV(Cardinality({p \in ps : ~IsNull(sch(p).School_ID)}))

\* the rows of the query: one per group of the joined and filtered rows
SocioGroups(C, S) ==
    LET joined == {p \in LeftJoin(C, S, {p \in (DOMAIN C) \X (DOMAIN S) : SocioOn(C[p[1]], S[p[2]])}) : SocioWhere(C[p[1]])}
        keys == {SocioGroupKey(C[p[1]]) : p \in joined}
        group(k) == {p \in joined : SocioGroupKey(C[p[1]]) = k}
    IN  { [community_area_number |-> k[1],
           community_area_name   |-> k[2],
           hardship_index        |-> k[3],
           poverty_rate          |-> k[4],
           avg_safety_score      |-> AvgSafetyScore(S, group(k)),
           school_count          |-> SchoolCount(S, group(k))] : k \in keys }

\* ORDER BY community_area_number: ascending, rows with one number in any order
SocioOrdered(rowset) ==
    {f \in Orderings(rowset) :
        \A i, j \in DOMAIN f :
            i < j => f[i].community_area_number.n <= f[j].community_area_number.n}

SocioColumns ==
    {"community_area_number", "community_area_name", "hardship_index",
     "poverty_rate", "avg_safety_score", "school_count"}

SocioNumericCols ==
    {"community_area_number", "hardship_index", "poverty_rate",
     "avg_safety_score", "school_count"}

\* for col in numeric_cols: df[col] = pd.to_numeric(df[col], errors="coerce")
SocioCoerce(r) ==
    [community_area_number |-> ToNumeric(r.community_area_number),
     community_area_name   |-> r.community_area_name,
     hardship_index        |-> ToNumeric(r.hardship_index),
     poverty_rate          |-> ToNumeric(r.poverty_rate),
     avg_safety_score      |-> ToNumeric(r.avg_safety_score),
     school_count          |-> ToNumeric(r.school_count)]

\* the loop over cols, coerced being the rows with those columns coerced:
\* df[col] of a column the frame does not have raises KeyError
CoerceColumns(df, cols, coerced) ==
    IF cols \subseteq df.columns
        THEN [raised |-> "none", df |-> DataFrame(df.columns, coerced)]
        ELSE [raised |-> "KeyError", df |-> df]

\* @st.cache_data: a call whose result is cached returns it without running the
\* function; otherwise the function runs and a result it returns is cached (an
\* exception is not).  The st.error of a cached run_query is replayed.
load_socioeducation_dataset ==
    /\ dpc = "load_socio"
    /\ IF cache.load_socioeducation_dataset # <<>>
          THEN /\ socio_df' = cache.load_socioeducation_dataset[1]
               /\ dpc' = "load_crime"
               /\ UNCHANGED <<st_errors, exception, cache>>
          ELSE \E rs \in SocioOrdered(SocioGroups(CENSUS_DATA.rows,
                                                   CHICAGO_PUBLIC_SCHOOLS.rows)) :
                 LET q == IF cache.socio_query # <<>> THEN cache.socio_query[1]
                          ELSE run_query({CENSUS_DATA, CHICAGO_PUBLIC_SCHOOLS},
                                         SocioColumns, rs)
                     c == CoerceColumns(q.df, SocioNumericCols,
                                        [i \in DOMAIN q.df.rows |-> SocioCoerce(q.df.rows[i])])
                 IN  /\ st_errors' = IF q.failed
                                         THEN Append(st_errors, "Database query failed")
                                         ELSE st_errors
                     /\ exception' = c.raised
                     /\ socio_df' = c.df
                     /\ dpc' = IF c.raised = "none" THEN "load_crime" ELSE "raised"
                     /\ cache' = [cache EXCEPT
                                     !.socio_query = <<q>>,
                                     !.load_socioeducation_dataset =
                                         IF c.raised = "none" THEN <<c.df>> ELSE <<>>]
    /\ UNCHANGED <<dbVars, crime_df, hotVars, runVars>>

\* ------------------------------------------------------------------------
\* load_crime_dataset
\* ------------------------------------------------------------------------
NullCensus ==
    [COMMUNITY_AREA_NUMBER |-> NULL, COMMUNITY_AREA_NAME |-> NULL,
     HARDSHIP_INDEX |-> NULL, PERCENT_HOUSEHOLDS_BELOW_POVERTY |-> NULL,
     PER_CAPITA_INCOME |-> NULL]

\* ON CAST(cr.COMMUNITY_AREA_NUMBER AS INTEGER) = CAST(c.COMMUNITY_AREA_NUMBER AS INTEGER)
CrimeOn(cr, c) ==
    SqlEquals(CastInteger(cr.COMMUNITY_AREA_NUMBER), CastInteger(c.COMMUNITY_AREA_NUMBER))

\* a query without the WHERE clause
CrimeWhere_KeepsAll(cr) == cr = cr

\* WHERE cr.COMMUNITY_AREA_NUMBER IS NOT NULL
CrimeWhere(cr) == ~IsNull(cr.COMMUNITY_AREA_NUMBER)

\* the SELECT list for a crime row cr joined to a census row c
CrimeSelect(cr, c) ==
    [crime_id              |-> cr.ID,
     case_number           |-> Coalesce(cr.CASE_NUMBER, TextV(<<"N/A">>)),
     primary_type          |-> Coalesce(cr.PRIMARY_TYPE, TextV(<<"UNKNOWN">>)),
     description           |-> Coalesce(cr.DESCRIPTION, TextV(<<"No description">>)),
     community_area_number |-> CastInteger(cr.COMMUNITY_AREA_NUMBER),
     community_area_name   |-> Coalesce(c.COMMUNITY_AREA_NAME, TextV(<<"Unknown">>)),
     per_capita_income     |-> c.PER_CAPITA_INCOME,
     poverty_rate          |-> c.PERCENT_HOUSEHOLDS_BELOW_POVERTY,
     hardship_index        |-> c.HARDSHIP_INDEX,
     crime_year            |-> cr.YEAR]

RECURSIVE PairsInOrder(_)
\* the joined rows in scan order: by row of the left table, then of the right
PairsInOrder(ps) ==
    IF ps = {} THEN <<>>
    ELSE LET m == CHOOSE p \in ps :
                     \A q \in ps : p[1] < q[1] \/ (p[1] = q[1] /\ p[2] <= q[2])
         IN  <<m>> \o PairsInOrder(ps \ {m})

\* the rows of the query, in scan order
CrimeQuery(CR, C) ==
    LET joined == {p \in LeftJoin(CR, C, {p \in (DOMAIN CR) \X (DOMAIN C) : CrimeOn(CR[p[1]], C[p[2]])}) : CrimeWhere(CR[p[1]])}
        ps == PairsInOrder(joined)
    IN  [k \in DOMAIN ps |->
            CrimeSelect(CR[ps[k][1]], IF ps[k][2] = 0 THEN NullCensus ELSE C[ps[k][2]])]

CrimeColumns ==
    {"crime_id", "case_number", "primary_type", "description", "community_area_number",
     "community_area_name", "per_capita_income", "poverty_rate", "hardship_index",
     "crime_year"}

CrimeNumericCols ==
    {"community_area_number", "per_capita_income", "poverty_rate", "hardship_index"}

\* for col in [...]: df[col] = pd.to_numeric(df[col], errors="coerce")
CrimeCoerce(r) ==
    [r EXCEPT !.community_area_number = ToNumeric(@),
              !.per_capita_income = ToNumeric(@),
              !.poverty_rate = ToNumeric(@),
              !.hardship_index = ToNumeric(@)]

load_crime_dataset ==
    /\ dpc = "load_crime"
    /\ IF cache.load_crime_dataset # <<>>
          THEN /\ crime_df' = cache.load_crime_dataset[1]
               /\ dpc' = "check"
               /\ UNCHANGED <<st_errors, exception, cache>>
          ELSE LET q == IF cache.crime_query # <<>> THEN cache.crime_query[1]
                        ELSE run_query({CHICAGO_CRIME_DATA, CENSUS_DATA}, CrimeColumns,
                                       CrimeQuery(CHICAGO_CRIME_DATA.rows, CENSUS_DATA.rows))
                   c == CoerceColumns(q.df, CrimeNumericCols,
                                      [i \in DOMAIN q.df.rows |-> CrimeCoerce(q.df.rows[i])])
               IN  /\ st_errors' = IF q.failed
                                       THEN Append(st_errors, "Database query failed")
                                       ELSE st_errors
                   /\ exception' = c.raised
                   /\ crime_df' = c.df
                   /\ dpc' = IF c.raised = "none" THEN "check" ELSE "raised"
                   /\ cache' = [cache EXCEPT
                                   !.crime_query = <<q>>,
                                   !.load_crime_dataset =
                                       IF c.raised = "none" THEN <<c.df>> ELSE <<>>]
    /\ UNCHANGED <<dbVars, socio_df, hotVars, runVars>>

\* main: the datasets are loaded; stop with an error when one of them is empty
main_check ==
    /\ dpc = "check"
    /\ IF IsEmpty(socio_df) \/ IsEmpty(crime_df)
          THEN /\ st_errors' = Append(st_errors, "One or more required datasets are empty")
               /\ dpc' = "stopped"
          ELSE /\ st_errors' = st_errors
               /\ dpc' = "filters"
    /\ UNCHANGED <<dbVars, socio_df, crime_df, exception, cache, hotVars, runVars>>

\* Streamlit runs main again in the same process (an interaction, a reload): the
\* script starts over with an empty page, the cache is kept
rerun ==
    /\ dpc \in {"stopped", "filters", "raised"}
    /\ dpc' = "load_socio"
    /\ socio_df' = EmptyDataFrame
    /\ crime_df' = EmptyDataFrame
    /\ exception' = "none"
    /\ st_errors' = <<>>
    /\ UNCHANGED <<dbVars, cache, hotVars, runVars>>


\* ------------------------------------------------------------------------
\* render_crime_hotspots_tab
\* ------------------------------------------------------------------------
Unknown == "Unknown / Missing Income"
Low == "Low Income Areas"
High == "High Income Areas"

\* a <= k for a number a kept as a fraction and an integer k
NumLeq(a, k) == a.n <= k * a.d

\* a segmentation that puts an income equal to the threshold in the high segment
IncomeSegment_StrictlyBelow(income, threshold) ==
    IF IsNull(income) THEN Unknown
    ELSE IF income.n < threshold * income.d THEN Low ELSE High

\* np.where(isna, Unknown, np.where(income <= threshold, Low, High)) on one row
IncomeSegment(income, threshold) ==
    IF IsNull(income) THEN Unknown
    ELSE IF NumLeq(income, threshold) THEN Low ELSE High

\* the strings that are sorted, in their sorted order
SortedStrings ==
    <<"ASSAULT", "BATTERY", "HK1", "High Income Areas", "KIDNAPPING", "Low Income Areas",
      "THEFT">>
StrRank(str) == CHOOSE i \in DOMAIN SortedStrings : SortedStrings[i] = str

Range(f) == {f[i] : i \in DOMAIN f}

\* seq[mask]: the rows of seq that satisfy Keep, in order
RECURSIVE MaskRange(_, _, _, _)
MaskRange(seq, keep, lo, hi) ==
    IF lo > hi THEN <<>>
    ELSE IF lo = hi THEN (IF keep[lo] THEN <<seq[lo]>> ELSE <<>>)
    ELSE LET mid == (lo + hi) \div 2
         IN  MaskRange(seq, keep, lo, mid) \o MaskRange(seq, keep, mid + 1, hi)

Mask(seq, keep) == MaskRange(seq, keep, 1, Len(seq))

\* the one ordering of the finite set S in ascending order of rank
RECURSIVE SortedBy(_, _)
SortedBy(S, rank) ==
    IF S = {} THEN <<>>
    ELSE LET m == CHOOSE x \in S : \A y \in S : rank[x] <= rank[y]
         IN  <<m>> \o SortedBy(S \ {m}, rank)

\* groupby(["income_segment", "primary_type"]).size().reset_index(name="crime_count"):
\* one row per pair that occurs, sorted by the pair
GroupSizes(df) ==
    LET keys == {<<df[i].income_segment, df[i].primary_type>> : i \in DOMAIN df}
        rank == [k \in keys |-> StrRank(k[1]) * (Len(SortedStrings) + 1) + StrRank(k[2].s[1])]
        ks == SortedBy(keys, rank)
    IN  SubSeq([j \in DOMAIN ks |->
                   [income_segment |-> ks[j][1],
                    primary_type   |-> ks[j][2],
                    crime_count    |-> Cardinality({i \in DOMAIN df :
                        <<df[i].income_segment, df[i].primary_type>> = ks[j]})]],
               1, Len(ks))

RECURSIVE SumCounts(_)
SumCounts(g) == IF g = <<>> THEN 0 ELSE Head(g).crime_count + SumCounts(Tail(g))

\* grouped.groupby("primary_type")["crime_count"].sum() at one type
TypeTotal(g, ty) == SumCounts(Mask(g, [i \in DOMAIN g |-> g[i].primary_type = ty]))

\* .sort_values() with the default ascending=True
SortValuesAscending(g) ==
    LET types == {g[i].primary_type : i \in DOMAIN g}
    IN  {f \in Orderings(types) :
            \A i, j \in DOMAIN f : i < j => TypeTotal(g, f[i]) <= TypeTotal(g, f[j])}

\* .sort_values(ascending=False): descending totals; the sort is not stable, so
\* types with equal totals come in any order
SortValuesDescending(g) ==
    LET types == {g[i].primary_type : i \in DOMAIN g}
    IN  {f \in Orderings(types) :
            \A i, j \in DOMAIN f : i < j => TypeTotal(g, f[i]) >= TypeTotal(g, f[j])}

\* a head that keeps one row too many
HeadN_OneTooMany(seq, n) == SubSeq(seq, 1, IF n + 1 < Len(seq) THEN n + 1 ELSE Len(seq))

\* .head(n)
HeadN(seq, n) == SubSeq(seq, 1, IF n < Len(seq) THEN n ELSE Len(seq))

\* compare_df.groupby(["community_area_name", "income_segment"]).size()
\* .reset_index(name="crime_count"), with the columns as renamed for display:
\* one row per pair that occurs
HotspotGroups(df) ==
    LET keys == {<<df[i].community_area_name, df[i].income_segment>> : i \in DOMAIN df}
        ks == SortedBy(keys, [k \in keys |-> 0])
    IN  SubSeq([j \in DOMAIN ks |->
                   [Community      |-> ks[j][1],
                    Income_Segment |-> ks[j][2],
                    Incidents      |-> Cardinality({i \in DOMAIN df :
                        <<df[i].community_area_name, df[i].income_segment>> = ks[j]})]],
               1, Len(ks))

\* the orders of the rows idx of hs with descending counts
RECURSIVE DescendingOrders(_, _)
DescendingOrders(hs, idx) ==
    IF idx = {} THEN {<<>>}
    ELSE UNION {{<<hs[m]>> \o r : r \in DescendingOrders(hs, idx \ {m})} :
                   m \in {i \in idx : \A h \in idx : hs[h].Incidents <= hs[i].Incidents}}

\* the orders of the rows idx of hs with ascending counts
RECURSIVE AscendingOrders(_, _)
AscendingOrders(hs, idx) ==
    IF idx = {} THEN {<<>>}
    ELSE UNION {{<<hs[m]>> \o r : r \in AscendingOrders(hs, idx \ {m})} :
                   m \in {i \in idx : \A h \in idx : hs[i].Incidents <= hs[h].Incidents}}

\* .sort_values("crime_count") with the default ascending=True
SortByCountAscending(hs) == AscendingOrders(hs, DOMAIN hs)

\* .sort_values("crime_count", ascending=False): the orders of the rows with
\* descending counts; the sort is not stable, so rows with equal counts come in
\* any order
SortByCountDescending(hs) == DescendingOrders(hs, DOMAIN hs)

\* working_df: the rows of crime_df with their income_segment
WithIncomeSegment(df, threshold) ==
    SubSeq([i \in DOMAIN df |->
               df[i] @@ [income_segment |->
                            IncomeSegment(df[i].per_capita_income, threshold)]],
           1, Len(df))

\* the handler, statement by statement; a variable that is read primed has been
\* assigned by the statements before
render_crime_hotspots_tab ==
    /\ hpc = "call"
    /\ IF filtered_crime = <<>>
          THEN /\ st_warnings' = Append(st_warnings, "No crime data available")
               /\ hpc' = "returned"
               /\ UNCHANGED <<working_df, compare_df, grouped, top_crimes, grouped_top,
                              unknown_income_count, st_captions, hotspots>>
          ELSE /\ working_df' = WithIncomeSegment(filtered_crime, income_threshold)
               /\ compare_df' = Mask(working_df',
                                     [i \in DOMAIN working_df' |->
                                         working_df'[i].income_segment \in {Low, High}])
               /\ IF compare_df' = <<>>
                     THEN /\ st_warnings' = Append(st_warnings,
                                 "No low/high income comparison data is available")
                          /\ hpc' = "returned"
                          /\ UNCHANGED <<grouped, top_crimes, grouped_top,
                                         unknown_income_count, st_captions, hotspots>>
                     ELSE /\ grouped' = GroupSizes(compare_df')
                          /\ top_crimes' \in {HeadN(order, top_n) :
                                                 order \in SortValuesDescending(grouped')}
                          /\ grouped_top' =
                               Mask(grouped', [i \in DOMAIN grouped' |->
                                                 grouped'[i].primary_type \in Range(top_crimes')])
                          /\ st_warnings' = st_warnings
                          /\ unknown_income_count' =
                               Cardinality({i \in DOMAIN working_df' :
                                               working_df'[i].income_segment = Unknown})
                          /\ st_captions' =
                               (IF unknown_income_count' # 0
                                   THEN Append(st_captions, unknown_income_count')
                                   ELSE st_captions)
                          /\ \E hs \in {HotspotGroups(compare_df')} :
                               hotspots' \in {HeadN(order, HotspotLimit) :
                                                order \in SortByCountDescending(hs)}
                          /\ hpc' = "rendered"
    /\ UNCHANGED <<dbVars, dashVars, runVars, filtered_crime, income_threshold, top_n>>

\* ------------------------------------------------------------------------
\* ChicagoDataAnalysis: the batch report
\* ------------------------------------------------------------------------
IsNumber(v) == v.t \in {"int", "real"}

\* a < b in SQLite's order of values: NULL, then numbers, then text
SqlLess(a, b) ==
    LET class(v) == IF v.t = "null" THEN 0 ELSE IF IsNumber(v) THEN 1 ELSE 2
    IN  \/ class(a) < class(b)
        \/ IsNumber(a) /\ IsNumber(b) /\ a.n * b.d < b.n * a.d
        \/ a.t = "text" /\ b.t = "text" /\ StrRank(a.s[1]) < StrRank(b.s[1])

\* col LIKE '%word%'
Like(v, word) == v.t = "text" /\ \E i \in DOMAIN v.s : v.s[i] = word

\* ORDER BY col [DESC]: the orders of the rows in which no row comes before a
\* row that sorts before it; rows that tie come in any order
OrderBy(rows, col, descending) ==
    LET Precedes(a, b) == IF descending THEN SqlLess(b[col], a[col])
                                        ELSE SqlLess(a[col], b[col])
    IN  {[k \in DOMAIN rows |-> rows[f[k]]] :
            f \in {g \in Orderings(DOMAIN rows) :
                      \A i, j \in DOMAIN rows :
                          i < j => ~Precedes(rows[g[j]], rows[g[i]])}}

\* the elements of the finite set S, each once
SetToSeq(S) == SortedBy(S, [x \in S |-> 0])

\* SELECT DISTINCT col ... ORDER BY col over the rows
DistinctOrdered(rows, col) ==
    LET vals == {rows[i][col] : i \in DOMAIN rows}
        asRows == {[c \in {col} |-> v] : v \in vals}
    IN  OrderBy(SetToSeq(asRows), col, FALSE)

Project(rows, cols) == [k \in DOMAIN rows |-> [c \in cols |-> rows[k][c]]]

\* the tables a query of run_analysis reads
QueryTables(k) ==
    CASE k \in {1, 3, 4, 5, 8} -> {CHICAGO_CRIME_DATA}
      [] k \in {2, 7, 9}       -> {CENSUS_DATA}
      [] k = 6                 -> {CHICAGO_PUBLIC_SCHOOLS}
      [] k = 10                -> {CENSUS_DATA, CHICAGO_CRIME_DATA}

\* Problem 8's inner query: a most frequent non-null COMMUNITY_AREA_NUMBER with
\* its count (LIMIT 1: any of the most frequent ones)
MostCrimeProne(CR) ==
    LET nums == {CR[i].COMMUNITY_AREA_NUMBER : i \in DOMAIN CR} \ {NULL}
        cnt(v) == Cardinality({i \in DOMAIN CR : CR[i].COMMUNITY_AREA_NUMBER = v})
    IN  {[COMMUNITY_AREA_NUMBER |-> v, CRIME_COUNT |-> IntV(cnt(v))] :
            v \in {w \in nums : \A u \in nums : cnt(u) <= cnt(w)}}

\* a count that gives no row over an empty table, as a grouped count would
TotalCrimes_NoRowWhenEmpty(CR) ==
    IF CR = <<>> THEN <<>> ELSE <<[TOTAL_CRIMES |-> IntV(Len(CR))]>>

\* Problem 1: SELECT COUNT(*) as TOTAL_CRIMES FROM CHICAGO_CRIME_DATA, an
\* aggregate without GROUP BY: one row, also over no rows
TotalCrimes(CR) == <<[TOTAL_CRIMES |-> IntV(Len(CR))]>>

\* the frames a query of run_analysis can return over the tables as they are
QueryResults(k) ==
    LET CR == CHICAGO_CRIME_DATA.rows
        C == CENSUS_DATA.rows
        S == CHICAGO_PUBLIC_SCHOOLS.rows
        where(rows, Keep(_)) == Mask(rows, [i \in DOMAIN rows |-> Keep(rows[i])])
    IN  CASE k = 1 -> {TotalCrimes(CR)}
          [] k = 2 ->
                LET keep(c) == IsNumber(c.PER_CAPITA_INCOME)
                                  /\ c.PER_CAPITA_INCOME.n < 11000 * c.PER_CAPITA_INCOME.d
                IN  {Project(o, {"COMMUNITY_AREA_NUMBER", "COMMUNITY_AREA_NAME",
                                 "PER_CAPITA_INCOME"}) :
                        o \in OrderBy(where(C, keep), "PER_CAPITA_INCOME", TRUE)}
          [] k = 3 ->
                LET keep(cr) == Like(cr.DESCRIPTION, "MINOR")
                IN  DistinctOrdered(where(CR, keep), "CASE_NUMBER")
          [] k = 4 ->
                LET keep(cr) == cr.PRIMARY_TYPE = TextV(<<"KIDNAPPING">>)
                                   /\ Like(cr.DESCRIPTION, "CHILD")
                IN  {Project(o, {"CASE_NUMBER", "ID", "DESCRIPTION"}) :
                        o \in OrderBy(where(CR, keep), "CASE_NUMBER", FALSE)}
          [] k = 5 ->
                LET keep(cr) == Like(cr.LOCATION_DESCRIPTION, "SCHOOL")
                IN  DistinctOrdered(where(CR, keep), "PRIMARY_TYPE")
          [] k = 6 ->
                LET scored == {j \in DOMAIN S : ~IsNull(S[j].SAFETY_SCORE)}
                    types == {S[j].SCHOOL_TYPE : j \in scored}
                    of(ty) == {<<0, j>> : j \in {h \in scored : S[h].SCHOOL_TYPE = ty}}
                    groups == {[SCHOOL_TYPE |-> ty,
                                AVG_SAFETY_SCORE |-> AvgSafetyScore(S, of(ty))] : ty \in types}
                IN  OrderBy(SetToSeq(groups), "AVG_SAFETY_SCORE", TRUE)
          [] k = 7 ->
                {HeadN(Project(o, {"COMMUNITY_AREA_NUMBER", "COMMUNITY_AREA_NAME",
                                   "PERCENT_HOUSEHOLDS_BELOW_POVERTY"}), 5) :
                    o \in OrderBy(C, "PERCENT_HOUSEHOLDS_BELOW_POVERTY", TRUE)}
          [] k = 8 ->
                IF MostCrimeProne(CR) = {} THEN {<<>>}
                ELSE {<<g>> : g \in MostCrimeProne(CR)}
          [] k = 9 ->
                LET top(c) == /\ ~IsNull(c.HARDSHIP_INDEX)
                              /\ \A i \in DOMAIN C :
                                    ~SqlLess(c.HARDSHIP_INDEX, C[i].HARDSHIP_INDEX)
                                        \/ IsNull(C[i].HARDSHIP_INDEX)
                IN  {Project(where(C, top), {"COMMUNITY_AREA_NAME"})}
          [] k = 10 ->
                IF MostCrimeProne(CR) = {} THEN {<<>>}
                ELSE {LET is(c) == c.COMMUNITY_AREA_NUMBER = g.COMMUNITY_AREA_NUMBER
                      IN  Project(where(C, is), {"COMMUNITY_AREA_NAME"}) :
                         g \in MostCrimeProne(CR)}

\* the exception classes that "except Error" (sqlite3.Error) catches
IsSqlite3Error(exc) == exc \in {"sqlite3.Error", "sqlite3.OperationalError"}

\* what pd.read_sql_query(query, self.conn) can raise: without a connection the
\* cursor cannot be made; a failed execution is raised as pandas' DatabaseError;
\* a failed fetch is raised as it is
ReadSqlRaises(k) ==
    IF conn # "open" THEN {"AttributeError"}
    ELSE IF \E tb \in QueryTables(k) : ~tb.exists THEN {"pandas.errors.DatabaseError"}
    ELSE {"none", "sqlite3.OperationalError"}

None == [isNone |-> TRUE, rows |-> <<>>]
Frame(rs) == [isNone |-> FALSE, rows |-> rs]

\* what display_results prints below the problem's title
Displayed(result) ==
    IF ~result.isNone /\ result.rows # <<>>
        THEN "rows" ELSE "No results found or error occurred."

Line(k, text) == [problem |-> k, text |-> text]

connect_db ==
    /\ rpc = "connect"
    /\ \E ok \in BOOLEAN :
         /\ conn' = IF ok THEN "open" ELSE "None"
         /\ stdout' = Append(stdout, Line(0, IF ok THEN "Connected to database"
                                                    ELSE "Error connecting to database"))
    /\ rpc' = "load"
    /\ UNCHANGED <<dbVars, dashVars, hotVars, query_num, results, rexception, stored>>

\* store_data_to_db(census_df, schools_df, crime_df): the three to_sql calls in
\* order; the call that fails (failAt, 4: none) leaves its table as it was,
\* dropped, or created and empty, and the tables after it untouched.  The
\* result: the tables, and the exception raised by to_sql ("none": stored).
store_data_to_db(data, failAt, left, exc) ==
    LET old == <<CENSUS_DATA, CHICAGO_PUBLIC_SCHOOLS, CHICAGO_CRIME_DATA>>
        tb(i) == IF i < failAt THEN Table(data[i])
                 ELSE IF i > failAt \/ left = "old" THEN old[i]
                 ELSE IF left = "absent" THEN AbsentTable
                 ELSE Table(<<>>)
    IN  [tables |-> <<tb(1), tb(2), tb(3)>>,
         to_sql_raised |-> IF failAt = 4 THEN "none" ELSE exc,
         raised |-> IF failAt = 4 \/ IsSqlite3Error(exc) THEN "none" ELSE exc]

StoreFailures ==
    {<<4, "old", "none">>} \cup
    ((1..3) \X {"old", "absent", "empty"} \X {"sqlite3.OperationalError",
                                              "pandas.errors.DatabaseError"})

\* the CSV files the batch report reads: up to MaxRunRows rows per dataset
RunCensusRows ==
    [COMMUNITY_AREA_NUMBER : {IntV(1)},
     COMMUNITY_AREA_NAME : {TextV(<<"A">>)},
     HARDSHIP_INDEX : {IntV(80)},
     PERCENT_HOUSEHOLDS_BELOW_POVERTY : {IntV(35)},
     PER_CAPITA_INCOME : {IntV(9000)}]
RunSchoolRows ==
    [School_ID : {IntV(7)}, COMMUNITY_AREA_NUMBER : {IntV(1)}, SAFETY_SCORE : {IntV(50)},
     SCHOOL_TYPE : {TextV(<<"ES">>)}]
RunCrimeRows ==
    [ID : {IntV(100)}, CASE_NUMBER : {TextV(<<"HK1">>)},
     PRIMARY_TYPE : {TextV(<<"KIDNAPPING">>)},
     DESCRIPTION : {TextV(<<"MINOR">>)}, COMMUNITY_AREA_NUMBER : {NULL, IntV(1)},
     LOCATION_DESCRIPTION : {TextV(<<"SCHOOL">>)}, YEAR : {IntV(2004)}]
Datasets ==
    SeqsUpTo(RunCensusRows, MaxRunRows) \X SeqsUpTo(RunSchoolRows, MaxRunRows)
        \X SeqsUpTo(RunCrimeRows, MaxRunRows)

\* one attempt of load_data_from_urls to read the three CSV files and store them
LoadAttempt(next_if_raised) ==
    \/ /\ stdout' = Append(stdout, Line(0, "Error loading data"))
       /\ rpc' = next_if_raised
       /\ UNCHANGED <<dbVars, stored>>
    \/ \E data \in Datasets :
         IF conn # "open"
            THEN /\ stdout' = Append(stdout, Line(0, "Error loading data"))
                 /\ rpc' = next_if_raised
                 /\ UNCHANGED <<dbVars, stored>>
            ELSE \E f \in StoreFailures :
                   LET s == store_data_to_db(data, f[1], f[2], f[3])
                   IN  /\ CENSUS_DATA' = s.tables[1]
                       /\ CHICAGO_PUBLIC_SCHOOLS' = s.tables[2]
                       /\ CHICAGO_CRIME_DATA' = s.tables[3]
                       /\ stored' = IF s.raised = "none" THEN <<data>> ELSE <<>>
                       /\ stdout' = Append(stdout, Line(0,
                             IF s.to_sql_raised = "none" THEN "All tables created successfully"
                             ELSE IF s.raised = "none" THEN "Error storing data"
                             ELSE "Error loading data"))
                       /\ rpc' = IF s.raised = "none" THEN "stored" ELSE next_if_raised

\* load_data_from_urls, the first attempt
load_data_from_urls ==
    /\ rpc = "load"
    /\ LoadAttempt("ssl_bypass")
    /\ UNCHANGED <<dashVars, hotVars, conn, query_num, results, rexception>>

\* load_data_from_urls, the attempt with the SSL bypass after an exception
load_data_ssl_bypass ==
    /\ rpc = "ssl_bypass"
    /\ LoadAttempt("analysis")
    /\ UNCHANGED <<dashVars, hotVars, conn, query_num, results, rexception>>

\* load_data_from_urls returns after store_data_to_db has returned: the
\* datasets it read go out of scope
load_data_returns ==
    /\ rpc = "stored"
    /\ rpc' = "analysis"
    /\ stored' = <<>>
    /\ UNCHANGED <<dbVars, dashVars, hotVars, conn, query_num, results, stdout, rexception>>

\* run_analysis, one problem: execute_query(k, query), then display_results
run_problem ==
    /\ rpc = "analysis"
    /\ query_num <= NumProblems
    /\ \E exc \in ReadSqlRaises(query_num) :
         IF exc = "none"
            THEN \E rs \in QueryResults(query_num) :
                   /\ results' = Append(results, Frame(rs))
                   /\ stdout' = Append(stdout, Line(query_num, Displayed(Frame(rs))))
                   /\ query_num' = query_num + 1
                   /\ UNCHANGED <<rpc, rexception>>
            ELSE IF IsSqlite3Error(exc)
            THEN /\ results' = Append(results, None)
                 /\ stdout' = stdout \o <<Line(query_num, "Error executing query"),
                                          Line(query_num, Displayed(None))>>
                 /\ query_num' = query_num + 1
                 /\ UNCHANGED <<rpc, rexception>>
            ELSE /\ rexception' = exc
                 /\ rpc' = "aborted"
                 /\ UNCHANGED <<results, stdout, query_num>>
    /\ UNCHANGED <<dbVars, dashVars, hotVars, conn, stored>>

\* run_analysis after the last problem
analysis_complete ==
    /\ rpc = "analysis"
    /\ query_num = NumProblems + 1
    /\ stdout' = Append(stdout, Line(0, "ANALYSIS COMPLETE"))
    /\ rpc' = "close"
    /\ UNCHANGED <<dbVars, dashVars, hotVars, conn, query_num, results, rexception, stored>>

close_db ==
    /\ rpc = "close"
    /\ conn' = IF conn = "open" THEN "closed" ELSE conn
    /\ stdout' = Append(stdout, Line(0, "Project completed successfully"))
    /\ rpc' = "exited"
    /\ UNCHANGED <<dbVars, dashVars, hotVars, query_num, results, rexception, stored>>

\* the script is run again on the database file the last run left
main ==
    /\ rpc \in {"exited", "aborted"}
    /\ rpc' = "connect"
    /\ conn' = "None"
    /\ query_num' = 1
    /\ results' = <<>>
    /\ stdout' = <<>>
    /\ rexception' = "none"
    /\ UNCHANGED <<dbVars, dashVars, hotVars, stored>>

\* ------------------------------------------------------------------------
\* Inputs
\* the batch report not running
ReportIdle ==
    /\ rpc = "idle"
    /\ conn = "None"
    /\ query_num = 1
    /\ results = <<>>
    /\ stdout = <<>>
    /\ rexception = "none"
    /\ stored = <<>>

\* the cache of a dashboard process that has called nothing yet: the two calls
\* of run_query (one per query text) and the two loaders
EmptyCache ==
    [socio_query |-> <<>>, crime_query |-> <<>>,
     load_socioeducation_dataset |-> <<>>, load_crime_dataset |-> <<>>]

\* the dashboard at position pos of main, nothing loaded yet
DashboardAt(pos) ==
    /\ dpc = pos
    /\ socio_df = EmptyDataFrame
    /\ crime_df = EmptyDataFrame
    /\ exception = "none"
    /\ st_errors = <<>>
    /\ cache = EmptyCache

\* render_crime_hotspots_tab not called
HotspotsIdle ==
    /\ hpc = "idle"
    /\ filtered_crime = <<>>
    /\ income_threshold = 0
    /\ top_n = 0
    /\ working_df = <<>>
    /\ compare_df = <<>>
    /\ grouped = <<>>
    /\ top_crimes = <<>>
    /\ grouped_top = <<>>
    /\ st_warnings = <<>>
    /\ unknown_income_count = 0
    /\ st_captions = <<>>
    /\ hotspots = <<>>

\* ------------------------------------------------------------------------
\* census rows for the community aggregate: the columns the query reads vary
SocioCensusRows ==
    [COMMUNITY_AREA_NUMBER : {NULL, IntV(1), TextV(<<"a">>)},
     COMMUNITY_AREA_NAME : {NULL, TextV(<<" ">>), TextV(<<"A">>), TextV(<<"B">>)},
     HARDSHIP_INDEX : {IntV(80)},
     PERCENT_HOUSEHOLDS_BELOW_POVERTY : {IntV(35)},
     PER_CAPITA_INCOME : {NULL}]

SchoolRows ==
    [School_ID : {NULL, IntV(7)},
     COMMUNITY_AREA_NUMBER : {IntV(1), TextV(<<"b">>)},
     SAFETY_SCORE : {NULL, IntV(50)},
     SCHOOL_TYPE : {TextV(<<"ES">>)}]

Tables(Rows, k) == {AbsentTable} \cup {Table(rs) : rs \in SeqsUpTo(Rows, k)}

InitSocio ==
    /\ CENSUS_DATA \in Tables(SocioCensusRows, MaxCensusRows)
    /\ CHICAGO_PUBLIC_SCHOOLS \in Tables(SchoolRows, MaxSchoolRows)
    /\ CHICAGO_CRIME_DATA = AbsentTable
    /\ DashboardAt("load_socio")
    /\ HotspotsIdle
    /\ ReportIdle

SpecSocio == InitSocio /\ [][load_socioeducation_dataset]_vars

\* crime rows: the join key varies, and the coalesced type on the rows of
\* community 1
CrimeRows ==
    {r \in [ID : {IntV(100)},
            CASE_NUMBER : {NULL},
            PRIMARY_TYPE : {NULL, TextV(<<"THEFT">>)},
            DESCRIPTION : {TextV(<<"d">>)},
            COMMUNITY_AREA_NUMBER : {NULL, IntV(1), IntV(5), TextV(<<"a">>)},
            LOCATION_DESCRIPTION : {TextV(<<"STREET">>)},
            YEAR : {IntV(2004)}] :
        r.PRIMARY_TYPE = NULL => r.COMMUNITY_AREA_NUMBER = IntV(1)}

\* census rows for the enriched crime view: the join key varies, and the name
\* and the income on the rows of community 1
CrimeCensusRows ==
    {c \in [COMMUNITY_AREA_NUMBER : {NULL, IntV(1), TextV(<<"b">>)},
            COMMUNITY_AREA_NAME : {NULL, TextV(<<"A">>)},
            HARDSHIP_INDEX : {IntV(80)},
            PERCENT_HOUSEHOLDS_BELOW_POVERTY : {IntV(35)},
            PER_CAPITA_INCOME : {NULL, IntV(9000)}] :
        (c.COMMUNITY_AREA_NAME = NULL \/ c.PER_CAPITA_INCOME = NULL)
            => c.COMMUNITY_AREA_NUMBER = IntV(1)}

InitCrime ==
    /\ CENSUS_DATA \in Tables(CrimeCensusRows, MaxCensusRows)
    /\ CHICAGO_PUBLIC_SCHOOLS = AbsentTable
    /\ CHICAGO_CRIME_DATA \in Tables(CrimeRows, MaxCrimeRows)
    /\ DashboardAt("load_crime")
    /\ HotspotsIdle
    /\ ReportIdle

SpecCrime == InitCrime /\ [][load_crime_dataset]_vars

\* the dashboard's start-up over small tables: each table absent, empty or
\* holding rows of one community
MainCensusRows ==
    [COMMUNITY_AREA_NUMBER : {IntV(1)},
     COMMUNITY_AREA_NAME : {TextV(<<"A">>)},
     HARDSHIP_INDEX : {IntV(80)},
     PERCENT_HOUSEHOLDS_BELOW_POVERTY : {IntV(35)},
     PER_CAPITA_INCOME : {NULL, IntV(9000)}]
MainSchoolRows ==
    [School_ID : {IntV(7)}, COMMUNITY_AREA_NUMBER : {IntV(1)}, SAFETY_SCORE : {NULL, IntV(50)},
     SCHOOL_TYPE : {TextV(<<"ES">>)}]
MainCrimeRows ==
    [ID : {IntV(100)}, CASE_NUMBER : {NULL}, PRIMARY_TYPE : {TextV(<<"THEFT">>)},
     DESCRIPTION : {TextV(<<"d">>)}, COMMUNITY_AREA_NUMBER : {NULL, IntV(1)},
     LOCATION_DESCRIPTION : {TextV(<<"STREET">>)}, YEAR : {IntV(2004)}]

InitMain ==
    /\ CENSUS_DATA \in Tables(MainCensusRows, MaxMainRows)
    /\ CHICAGO_PUBLIC_SCHOOLS \in Tables(MainSchoolRows, MaxMainRows)
    /\ CHICAGO_CRIME_DATA \in Tables(MainCrimeRows, MaxMainRows)
    /\ DashboardAt("load_socio")
    /\ HotspotsIdle
    /\ ReportIdle

NextMain == load_socioeducation_dataset \/ load_crime_dataset \/ main_check

SpecMain == InitMain /\ [][NextMain]_vars

\* the rows given to render_crime_hotspots_tab: rows of the enriched crime view
\* after the numeric coercion, so an income is a number or null
EnrichedRecord(ty, income) ==
    [crime_id              |-> IntV(100),
     case_number           |-> TextV(<<"N/A">>),
     primary_type          |-> ty,
     description           |-> TextV(<<"d">>),
     community_area_number |-> IntV(1),
     community_area_name   |-> TextV(<<"A">>),
     per_capita_income     |-> income,
     poverty_rate          |-> IntV(35),
     hardship_index        |-> IntV(80),
     crime_year            |-> IntV(2004)]
CrimeTypes == {TextV(<<"ASSAULT">>), TextV(<<"BATTERY">>), TextV(<<"THEFT">>)}
Incomes == {NULL, IntV(9000), IntV(20000)}
Thresholds == {8999, 9000, 20000}
EnrichedRecords == {EnrichedRecord(ty, inc) : ty \in CrimeTypes, inc \in Incomes}

InitHotspots ==
    /\ CENSUS_DATA = AbsentTable
    /\ CHICAGO_PUBLIC_SCHOOLS = AbsentTable
    /\ CHICAGO_CRIME_DATA = AbsentTable
    /\ DashboardAt("render")
    /\ hpc = "call"
    /\ filtered_crime \in SeqsUpTo(EnrichedRecords, MaxRecords)
    /\ income_threshold \in Thresholds
    /\ top_n \in 1..MaxTopN
    /\ working_df = <<>>
    /\ compare_df = <<>>
    /\ grouped = <<>>
    /\ top_crimes = <<>>
    /\ grouped_top = <<>>
    /\ st_warnings = <<>>
    /\ unknown_income_count = 0
    /\ st_captions = <<>>
    /\ hotspots = <<>>
    /\ ReportIdle

SpecHotspots == InitHotspots /\ [][render_crime_hotspots_tab]_vars

\* a filtered view with more communities than the hotspot table shows: the
\* communities 1 .. BaseCommunities have k + 2 records each, alternately of a
\* low and of a high income; up to MaxExtraCommunities further communities have
\* one or two records of a low, a high or no income
CommunityNames ==
    <<"C01", "C02", "C03", "C04", "C05", "C06", "C07", "C08", "C09", "C10",
      "C11", "C12", "C13", "C14", "C15", "C16", "C17", "C18", "C19", "C20">>
BaseCommunities == HotspotLimit - 1

CommunityRecord(k, ty, income) ==
    [EnrichedRecord(ty, income) EXCEPT
        !.community_area_number = IntV(k),
        !.community_area_name = TextV(<<CommunityNames[k]>>)]

\* n records of community k
RECURSIVE Records(_, _, _, _)
Records(k, ty, income, n) ==
    IF n = 0 THEN <<>>
    ELSE <<CommunityRecord(k, ty, income)>> \o Records(k, ty, income, n - 1)

RECURSIVE BaseRecords(_)
BaseRecords(k) ==
    IF k = 0 THEN <<>>
    ELSE BaseRecords(k - 1)
         \o Records(k, TextV(<<"THEFT">>),
                    IF k % 2 = 1 THEN IntV(9000) ELSE IntV(20000), k + 2)

\* what an extra community contributes: no record, or one or two records of
\* one income
ExtraChoices == {<<0, NULL>>} \cup ((1..2) \X Incomes)

RECURSIVE ExtraRecords(_, _)
ExtraRecords(choice, k) ==
    IF k = 0 THEN <<>>
    ELSE ExtraRecords(choice, k - 1)
         \o Records(BaseCommunities + k, TextV(<<"ASSAULT">>), choice[k][2], choice[k][1])

InitRanking ==
    /\ CENSUS_DATA = AbsentTable
    /\ CHICAGO_PUBLIC_SCHOOLS = AbsentTable
    /\ CHICAGO_CRIME_DATA = AbsentTable
    /\ DashboardAt("render")
    /\ hpc = "call"
    /\ \E choice \in [1..MaxExtraCommunities -> ExtraChoices] :
         filtered_crime = BaseRecords(BaseCommunities)
                             \o ExtraRecords(choice, MaxExtraCommunities)
    /\ income_threshold = 9000
    /\ top_n = 1
    /\ working_df = <<>>
    /\ compare_df = <<>>
    /\ grouped = <<>>
    /\ top_crimes = <<>>
    /\ grouped_top = <<>>
    /\ st_warnings = <<>>
    /\ unknown_income_count = 0
    /\ st_captions = <<>>
    /\ hotspots = <<>>
    /\ ReportIdle

SpecRanking == InitRanking /\ [][render_crime_hotspots_tab]_vars

\* the batch report started on a new database file
Init ==
    /\ CENSUS_DATA = AbsentTable
    /\ CHICAGO_PUBLIC_SCHOOLS = AbsentTable
    /\ CHICAGO_CRIME_DATA = AbsentTable
    /\ DashboardAt("idle")
    /\ HotspotsIdle
    /\ rpc = "connect"
    /\ conn = "None"
    /\ query_num = 1
    /\ results = <<>>
    /\ stdout = <<>>
    /\ rexception = "none"
    /\ stored = <<>>

Next ==
    \/ connect_db
    \/ load_data_from_urls
    \/ load_data_ssl_bypass
    \/ load_data_returns
    \/ run_problem
    \/ analysis_complete
    \/ close_db
    \/ main

Spec == Init /\ [][Next]_vars

\* either program is run: the batch report on a new database file, or the
\* dashboard over the tables it finds
InitPresentation == Init \/ InitMain

NextPresentation == Next \/ NextMain

SpecPresentation == InitPresentation /\ [][NextPresentation]_vars

\* ------------------------------------------------------------------------
\* Properties of load_socioeducation_dataset
\* ------------------------------------------------------------------------
SocioLoaded == dpc = "load_crime" /\ CENSUS_DATA.exists /\ CHICAGO_PUBLIC_SCHOOLS.exists

\* the census rows the query keeps
QualifyingCensus ==
    {i \in DOMAIN CENSUS_DATA.rows :
        LET c == CENSUS_DATA.rows[i]
        IN  /\ c.COMMUNITY_AREA_NUMBER # NULL
            /\ c.COMMUNITY_AREA_NAME # NULL
            /\ \E k \in DOMAIN c.COMMUNITY_AREA_NAME.s : c.COMMUNITY_AREA_NAME.s[k] # " "}

\* the community of a census row, as the aggregate shows it
CommunityTuple(c) ==
    <<CastInteger(c.COMMUNITY_AREA_NUMBER), c.COMMUNITY_AREA_NAME,
      ToNumeric(c.HARDSHIP_INDEX), ToNumeric(c.PERCENT_HOUSEHOLDS_BELOW_POVERTY)>>
AggregateTuple(r) ==
    <<r.community_area_number, r.community_area_name, r.hardship_index, r.poverty_rate>>

\* C5 (as amended): the community aggregate has exactly one row for each distinct
\* (integer-cast identifier, name, hardship index, poverty rate) tuple of the
\* census rows with a non-null identifier and a non-blank name, and no other row.
C5_AggregateOneRowPerCommunityTuple ==
    SocioLoaded =>
        /\ \A i \in QualifyingCensus :
             Cardinality({k \in DOMAIN socio_df.rows :
                 AggregateTuple(socio_df.rows[k]) = CommunityTuple(CENSUS_DATA.rows[i])}) = 1
        /\ \A k \in DOMAIN socio_df.rows :
             \E i \in QualifyingCensus :
                 AggregateTuple(socio_df.rows[k]) = CommunityTuple(CENSUS_DATA.rows[i])

\* C5 witness: two census rows of one community number with different names
\* were aggregated
C5_Witness ==
    /\ SocioLoaded
    /\ Len(socio_df.rows) = 2
    /\ socio_df.rows[1].community_area_number = socio_df.rows[2].community_area_number

\* C5 (as claimed): exactly one row for each distinct community identifier of a
\* qualifying census row: no identifier appears in two output rows and no
\* qualifying identifier is missing.
C5_AggregateOneRowPerIdentifier ==
    SocioLoaded =>
        /\ \A i \in QualifyingCensus :
             Cardinality({k \in DOMAIN socio_df.rows :
                 socio_df.rows[k].community_area_number
                     = CastInteger(CENSUS_DATA.rows[i].COMMUNITY_AREA_NUMBER)}) = 1
        /\ \A k \in DOMAIN socio_df.rows :
             \E i \in QualifyingCensus :
                 socio_df.rows[k].community_area_number
                     = CastInteger(CENSUS_DATA.rows[i].COMMUNITY_AREA_NUMBER)

\* C6: in every row of the community aggregate, school_count = 0 implies that
\* avg_safety_score is null.
C6_NoSchoolsNoAverage ==
    SocioLoaded =>
        \A k \in DOMAIN socio_df.rows :
            socio_df.rows[k].school_count = IntV(0)
                => IsNull(socio_df.rows[k].avg_safety_score)

\* the school rows joined to the census rows of an aggregate row, as pairs
\* <<census row, school row>>
JoinedSchools(r) ==
    {p \in (DOMAIN CENSUS_DATA.rows) \X (DOMAIN CHICAGO_PUBLIC_SCHOOLS.rows) :
        /\ p[1] \in QualifyingCensus
        /\ CommunityTuple(CENSUS_DATA.rows[p[1]]) = AggregateTuple(r)
        /\ LET cn == CastInteger(CENSUS_DATA.rows[p[1]].COMMUNITY_AREA_NUMBER)
               sn == CastInteger(CHICAGO_PUBLIC_SCHOOLS.rows[p[2]].COMMUNITY_AREA_NUMBER)
           IN  cn # NULL /\ cn = sn}

\* C7: avg_safety_score is the mean of the non-null safety scores of the joined
\* schools (null when there is none) and school_count is the number of joined
\* school rows, null scores included.
C7_NullExcludingAverage ==
    SocioLoaded =>
        \A k \in DOMAIN socio_df.rows :
            LET r == socio_df.rows[k]
                js == JoinedSchools(r)
                scored == {p \in js : CHICAGO_PUBLIC_SCHOOLS.rows[p[2]].SAFETY_SCORE # NULL}
            IN  /\ r.school_count = IntV(Cardinality(js))
                /\ IF scored = {} THEN r.avg_safety_score = NULL
                   ELSE /\ r.avg_safety_score # NULL
                        /\ r.avg_safety_score.n * Cardinality(scored)
                             = r.avg_safety_score.d * SumScores(CHICAGO_PUBLIC_SCHOOLS.rows, scored)

\* ------------------------------------------------------------------------
\* Properties of load_crime_dataset
\* ------------------------------------------------------------------------
CrimeLoaded == dpc = "check" /\ CENSUS_DATA.exists /\ CHICAGO_CRIME_DATA.exists

\* the census rows whose integer-cast identifier equals that of crime row i
CensusMatches(i) ==
    {j \in DOMAIN CENSUS_DATA.rows :
        LET a == CastInteger(CHICAGO_CRIME_DATA.rows[i].COMMUNITY_AREA_NUMBER)
            b == CastInteger(CENSUS_DATA.rows[j].COMMUNITY_AREA_NUMBER)
        IN  a # NULL /\ b # NULL /\ a.n = b.n}

KeptCrimes ==
    {i \in DOMAIN CHICAGO_CRIME_DATA.rows :
        CHICAGO_CRIME_DATA.rows[i].COMMUNITY_AREA_NUMBER # NULL}

\* output row r shows crime row i
ShowsCrime(r, i) ==
    LET cr == CHICAGO_CRIME_DATA.rows[i]
    IN  /\ r.crime_id = cr.ID
        /\ r.primary_type = (IF cr.PRIMARY_TYPE = NULL THEN TextV(<<"UNKNOWN">>)
                                                       ELSE cr.PRIMARY_TYPE)
        /\ r.community_area_number = CastInteger(cr.COMMUNITY_AREA_NUMBER)

\* output row r carries no community: the sentinel name and null indicators
Unenriched(r) ==
    /\ r.community_area_name = TextV(<<"Unknown">>)
    /\ r.per_capita_income = NULL
    /\ r.poverty_rate = NULL
    /\ r.hardship_index = NULL

\* output row r carries the indicators of census row j
EnrichedBy(r, j) ==
    LET c == CENSUS_DATA.rows[j]
    IN  /\ r.community_area_name = (IF c.COMMUNITY_AREA_NAME = NULL THEN TextV(<<"Unknown">>)
                                                                     ELSE c.COMMUNITY_AREA_NAME)
        /\ r.per_capita_income = ToNumeric(c.PER_CAPITA_INCOME)
        /\ r.poverty_rate = ToNumeric(c.PERCENT_HOUSEHOLDS_BELOW_POVERTY)
        /\ r.hardship_index = ToNumeric(c.HARDSHIP_INDEX)

\* the position in the output of the first row of crime row i, given that every
\* kept crime row before it takes one row per matching census row, or one row
RECURSIVE RowsBefore(_)
RowsBefore(i) ==
    IF i = 1 THEN 0
    ELSE RowsBefore(i - 1)
         + (IF (i - 1) \notin KeptCrimes THEN 0
            ELSE IF CensusMatches(i - 1) = {} THEN 1
            ELSE Cardinality(CensusMatches(i - 1)))

\* C4 (as amended): the enriched crime view has no row for a crime record whose
\* community identifier is null and, for each crime record whose identifier is
\* non-null, one row per census row whose integer-cast identifier equals the
\* crime record's, or, when no census row matches, exactly one row with
\* community name 'Unknown' and null per_capita_income, poverty_rate and
\* hardship_index.
C4_EnrichedRowsPerCrimeAndMatch ==
    CrimeLoaded =>
        LET n == Len(CHICAGO_CRIME_DATA.rows)
            out == crime_df.rows
        IN  /\ Len(out) = RowsBefore(n + 1)
            /\ \A i \in KeptCrimes :
                 IF CensusMatches(i) = {}
                    THEN /\ ShowsCrime(out[RowsBefore(i) + 1], i)
                         /\ Unenriched(out[RowsBefore(i) + 1])
                    ELSE \A k \in (RowsBefore(i) + 1)..RowsBefore(i + 1) :
                            /\ ShowsCrime(out[k], i)
                            /\ \E j \in CensusMatches(i) : EnrichedBy(out[k], j)
            /\ \A i \in KeptCrimes : \A j \in CensusMatches(i) :
                 \E k \in (RowsBefore(i) + 1)..RowsBefore(i + 1) : EnrichedBy(out[k], j)

\* C4 witness: a crime record without a matching census row was retained as
\* 'Unknown' next to a crime record that two census rows match
C4_Witness ==
    /\ CrimeLoaded
    /\ Len(crime_df.rows) = 3
    /\ \E i \in KeptCrimes : CensusMatches(i) = {} /\ Unenriched(crime_df.rows[RowsBefore(i) + 1])
    /\ \E i \in KeptCrimes : Cardinality(CensusMatches(i)) = 2

\* C4 (as claimed): exactly one row per crime record whose community identifier
\* is non-null, none for a null identifier, and an unmatched record is retained
\* with community name 'Unknown' and null indicators.
C4_ExactlyOneRowPerCrime ==
    CrimeLoaded =>
        /\ Len(crime_df.rows) = Cardinality(KeptCrimes)
        /\ \A i \in KeptCrimes :
             LET k == Cardinality({h \in KeptCrimes : h <= i})
             IN  /\ ShowsCrime(crime_df.rows[k], i)
                 /\ CensusMatches(i) = {} => Unenriched(crime_df.rows[k])

\* a community identifier that does not coerce to an integer
Uncoercible(v) == v.t = "text" /\ (v.s = <<>> \/ Head(v.s) \notin Digits)

\* C8: a community identifier that cannot be coerced to an integer is a null
\* key: a crime row with such an identifier matches no census row (its row is
\* retained without a community), whatever un-coercible identifiers the census
\* rows hold, and no error is raised.
C8_UncoercibleKeyMatchesNothing ==
    /\ (dpc # "load_crime" /\ CENSUS_DATA.exists /\ CHICAGO_CRIME_DATA.exists)
           => exception = "none"
    /\ CrimeLoaded =>
        \A i \in KeptCrimes :
            Uncoercible(CHICAGO_CRIME_DATA.rows[i].COMMUNITY_AREA_NUMBER) =>
                \A k \in (RowsBefore(i) + 1)..RowsBefore(i + 1) :
                    k \in DOMAIN crime_df.rows => Unenriched(crime_df.rows[k])

\* ------------------------------------------------------------------------
\* Properties of the dashboard's start-up
\* ------------------------------------------------------------------------
Unavailable(tb) == ~tb.exists \/ tb.rows = <<>>

\* C2: when a base table is absent or empty, neither view builder raises, and
\* the builder whose driving table (CENSUS_DATA, CHICAGO_CRIME_DATA) is absent
\* or empty returns an empty result.
C2_MissingDataGivesEmptyResult ==
    /\ (Unavailable(CENSUS_DATA) \/ Unavailable(CHICAGO_PUBLIC_SCHOOLS)
            \/ Unavailable(CHICAGO_CRIME_DATA)) => exception = "none"
    /\ (dpc \in {"load_crime", "check", "stopped", "filters"} /\ Unavailable(CENSUS_DATA))
            => IsEmpty(socio_df)
    /\ (dpc \in {"check", "stopped", "filters"} /\ Unavailable(CHICAGO_CRIME_DATA))
            => IsEmpty(crime_df)

\* ------------------------------------------------------------------------
\* Properties of render_crime_hotspots_tab
\* ------------------------------------------------------------------------
Segmented == hpc \in {"returned", "rendered"} /\ filtered_crime # <<>>

\* C3: a record's segment is Unknown iff its per_capita_income is null;
\* otherwise it is Low iff per_capita_income <= threshold and High otherwise;
\* every record has exactly one of the three labels.
C3_IncomeSegmentationRule ==
    Segmented =>
        /\ Len(working_df) = Len(filtered_crime)
        /\ \A i \in DOMAIN working_df :
             LET inc == filtered_crime[i].per_capita_income
                 seg == working_df[i].income_segment
             IN  /\ seg \in {Unknown, Low, High}
                 /\ seg = Unknown <=> inc = NULL
                 /\ inc # NULL => (seg = Low <=> inc.n <= income_threshold * inc.d)
                 /\ inc # NULL => (seg = High <=> inc.n > income_threshold * inc.d)

\* C3 witness: records of all three segments, one with an income equal to the
\* threshold
C3_Witness ==
    /\ Segmented
    /\ {working_df[i].income_segment : i \in DOMAIN working_df} = {Unknown, Low, High}
    /\ \E i \in DOMAIN working_df :
         /\ working_df[i].per_capita_income = IntV(income_threshold)
         /\ working_df[i].income_segment = Low

\* the number of Low/High records of crime type ty
Frequency(ty) ==
    Cardinality({i \in DOMAIN compare_df : compare_df[i].primary_type = ty})

ComparedTypes == {compare_df[i].primary_type : i \in DOMAIN compare_df}
SelectedTypes == {top_crimes[i] : i \in DOMAIN top_crimes}
ExcludedTypes == ComparedTypes \ SelectedTypes

RECURSIVE TotalFrequency(_)
TotalFrequency(types) ==
    IF types = {} THEN 0
    ELSE LET ty == CHOOSE x \in types : TRUE
         IN  Frequency(ty) + TotalFrequency(types \ {ty})

\* C9: the top-N step selects at most top_n crime types; every selected type is
\* at least as frequent as every excluded type, so the summed frequency of the
\* selection is at least that of any excluded type; the charted rows are the
\* grouped rows of the selected types with their own counts, rows of excluded
\* types are dropped and not merged into another row.
C9_TopNBoundAndDominance ==
    hpc = "rendered" =>
        /\ Cardinality(SelectedTypes) <= top_n
        /\ SelectedTypes \subseteq ComparedTypes
        /\ \A s \in SelectedTypes : \A e \in ExcludedTypes : Frequency(s) >= Frequency(e)
        /\ \A e \in ExcludedTypes : TotalFrequency(SelectedTypes) >= Frequency(e)
        /\ \A j \in DOMAIN grouped_top :
             /\ grouped_top[j].primary_type \in SelectedTypes
             /\ grouped_top[j].income_segment \in {Low, High}
             /\ grouped_top[j].crime_count =
                  Cardinality({i \in DOMAIN compare_df :
                      /\ compare_df[i].primary_type = grouped_top[j].primary_type
                      /\ compare_df[i].income_segment = grouped_top[j].income_segment})
        /\ \A i \in DOMAIN compare_df :
             compare_df[i].primary_type \in SelectedTypes =>
                 Cardinality({j \in DOMAIN grouped_top :
                     /\ compare_df[i].primary_type = grouped_top[j].primary_type
                     /\ compare_df[i].income_segment = grouped_top[j].income_segment}) = 1

\* C9 witness: a type was excluded, and the records of the selected types are
\* charted in both segments
C9_Witness ==
    /\ hpc = "rendered"
    /\ ExcludedTypes # {}
    /\ Len(top_crimes) = top_n
    /\ {grouped_top[j].income_segment : j \in DOMAIN grouped_top} = {Low, High}
    /\ Len(grouped_top) < Len(grouped)

\* C10 (as amended): the top-N crime types are in descending order of
\* frequency, and a type that comes before another in that order, or makes the
\* cut where another does not, is at least as frequent; the order among types
\* of equal frequency is not determined.
C10_TopNDescendingFrequency ==
    hpc = "rendered" =>
        /\ \A i, j \in DOMAIN top_crimes :
             i < j => Frequency(top_crimes[i]) >= Frequency(top_crimes[j])
        /\ \A i, j \in DOMAIN top_crimes : i # j => top_crimes[i] # top_crimes[j]
        /\ Len(top_crimes) =
             (IF top_n < Cardinality(ComparedTypes) THEN top_n ELSE Cardinality(ComparedTypes))

\* C10 witness: two types of equal frequency, one of which made the cut
C10_Witness ==
    /\ hpc = "rendered"
    /\ \E s \in SelectedTypes : \E e \in ExcludedTypes : Frequency(s) = Frequency(e)

\* the position of the first Low/High record of crime type ty
FirstEncounter(ty) ==
    CHOOSE i \in DOMAIN compare_df :
        /\ compare_df[i].primary_type = ty
        /\ \A h \in 1..(i - 1) : compare_df[h].primary_type # ty

\* C10 (as claimed): descending frequency, and among types of equal frequency
\* the one first encountered in the input records comes first, also at the cut.
C10_TiesByFirstEncounter ==
    hpc = "rendered" =>
        /\ \A i, j \in DOMAIN top_crimes :
             i < j => Frequency(top_crimes[i]) >= Frequency(top_crimes[j])
        /\ \A i, j \in DOMAIN top_crimes :
             (i < j /\ Frequency(top_crimes[i]) = Frequency(top_crimes[j]))
                 => FirstEncounter(top_crimes[i]) < FirstEncounter(top_crimes[j])
        /\ \A s \in SelectedTypes : \A e \in ExcludedTypes :
             Frequency(s) = Frequency(e) => FirstEncounter(s) < FirstEncounter(e)

\* ------------------------------------------------------------------------
\* Properties of the batch report
\* ------------------------------------------------------------------------
\* C1: a query of run_analysis that fails on the open connection (its base
\* table is missing) is caught in execute_query and reported for that query
\* only: no exception leaves run_analysis, the remaining queries are executed
\* and displayed, and run_analysis reaches 'ANALYSIS COMPLETE'.
C1_QueryFailureIsolated ==
    /\ conn = "open" => (rpc # "aborted" /\ rexception = "none")
    /\ rpc \in {"close", "exited"} =>
         /\ Len(results) = NumProblems
         /\ \A k \in 1..NumProblems :
              \E i \in DOMAIN stdout :
                  stdout[i].problem = k /\ stdout[i].text = Displayed(results[k])
         /\ \E i \in DOMAIN stdout : stdout[i].text = "ANALYSIS COMPLETE"

\* problem k was run and execute_query printed no error for it
ExecutedWithoutError(k) ==
    /\ Len(results) >= k
    /\ \A i \in DOMAIN stdout :
         ~(stdout[i].problem = k /\ stdout[i].text = "Error executing query")

\* C11: problem 1 run against an existing but empty CHICAGO_CRIME_DATA table
\* whose read does not fail returns a result, not None, of exactly one row
\* whose count is 0, and display_results prints that row.
C11_TotalCrimesOfEmptyTable ==
    (CHICAGO_CRIME_DATA.exists /\ CHICAGO_CRIME_DATA.rows = <<>>
        /\ ExecutedWithoutError(1)) =>
            /\ ~results[1].isNone
            /\ results[1].rows = <<[TOTAL_CRIMES |-> IntV(0)]>>
            /\ \E i \in DOMAIN stdout : stdout[i] = Line(1, "rows")

\* C11 witness: the count over the empty table was displayed
C11_Witness ==
    /\ CHICAGO_CRIME_DATA.exists /\ CHICAGO_CRIME_DATA.rows = <<>>
    /\ ExecutedWithoutError(1)
    /\ results[1] = Frame(<<[TOTAL_CRIMES |-> IntV(0)]>>)
    /\ \E i \in DOMAIN stdout : stdout[i] = Line(1, "rows")

\* ------------------------------------------------------------------------
\* Properties of what the two programs show
\* ------------------------------------------------------------------------
\* the texts printed for problem k
Shown(k) == {stdout[i].text : i \in {h \in DOMAIN stdout : stdout[h].problem = k}}

\* the problems whose query failed in execute_query, and those whose query
\* succeeded with zero rows
FailedProblems == {k \in DOMAIN results : results[k].isNone}
EmptyProblems == {k \in DOMAIN results : ~results[k].isNone /\ results[k].rows = <<>>}

\* the dashboard's loaders that have run, and whether their query failed
SocioQueryFailed == ~CENSUS_DATA.exists \/ ~CHICAGO_PUBLIC_SCHOOLS.exists
CrimeQueryFailed == ~CHICAGO_CRIME_DATA.exists \/ ~CENSUS_DATA.exists
SocioRan == dpc \in {"load_crime", "check", "stopped", "filters", "raised"}
CrimeRan == dpc \in {"check", "stopped", "filters"} \/ (dpc = "raised" /\ ~SocioQueryFailed)
ErrorsShown == {st_errors[i] : i \in DOMAIN st_errors}

\* C12 (as amended): a failed query is always reported by an error of its own
\* that a query succeeding with zero rows never produces: in the report the
\* line 'Error executing query' of execute_query (or the exception that leaves
\* run_analysis, with nothing displayed for that problem), in the dashboard
\* the st.error 'Database query failed' of run_query.
C12_FailureHasItsOwnError ==
    /\ \A k \in DOMAIN results :
         k \in FailedProblems <=> "Error executing query" \in Shown(k)
    /\ rpc = "aborted" => (rexception # "none" /\ Shown(query_num) = {})
    /\ rpc # "aborted" => rexception = "none"
    /\ SocioRan =>
         ("Database query failed" \in ErrorsShown
             <=> (SocioQueryFailed \/ (CrimeRan /\ CrimeQueryFailed)))

\* C12 witness: in one report a query failed and another returned zero rows
C12_Witness ==
    /\ FailedProblems # {}
    /\ EmptyProblems # {}
    /\ \A k \in EmptyProblems : "Error executing query" \notin Shown(k)

\* C12 (as claimed): a query that succeeded with zero rows and a query that
\* failed are never reported through the same message: in the report the texts
\* printed for the two share nothing; in the dashboard a failed query is not
\* reported with the st.error of an empty dataset.
C12_NeverTheSameMessage ==
    /\ \A j \in FailedProblems : \A k \in EmptyProblems : Shown(j) \cap Shown(k) = {}
    /\ "Database query failed" \in ErrorsShown
         => "One or more required datasets are empty" \notin ErrorsShown

\* ------------------------------------------------------------------------
\* Properties of the segmentation at extreme thresholds
\* ------------------------------------------------------------------------
\* the records whose per_capita_income is known
KnownIncome == {i \in DOMAIN filtered_crime : filtered_crime[i].per_capita_income # NULL}

\* the threshold is at or above, or below, every known income
ThresholdAtOrAboveAll ==
    \A i \in KnownIncome :
        LET inc == filtered_crime[i].per_capita_income
        IN  inc.n <= income_threshold * inc.d
ThresholdBelowAll ==
    \A i \in KnownIncome :
        LET inc == filtered_crime[i].per_capita_income
        IN  inc.n > income_threshold * inc.d

\* C13: with a threshold at or above every known income every record with a
\* non-null per_capita_income is Low, with a threshold below every known income
\* every such record is High; records with a null income are Unknown in both
\* cases.
C13_ThresholdExtremes ==
    Segmented =>
        /\ ThresholdAtOrAboveAll =>
              \A i \in DOMAIN working_df :
                  working_df[i].income_segment = (IF i \in KnownIncome THEN Low ELSE Unknown)
        /\ ThresholdBelowAll =>
              \A i \in DOMAIN working_df :
                  working_df[i].income_segment = (IF i \in KnownIncome THEN High ELSE Unknown)

\* C13 witness: records of two different incomes and one without income,
\* segmented with a threshold equal to the larger income
C13_Witness ==
    /\ Segmented
    /\ ThresholdAtOrAboveAll
    /\ Cardinality({filtered_crime[i].per_capita_income : i \in DOMAIN filtered_crime}) = 3
    /\ \E i \in KnownIncome : filtered_crime[i].per_capita_income = IntV(income_threshold)
    /\ \A i \in KnownIncome : working_df[i].income_segment = Low

\* ------------------------------------------------------------------------
\* Properties of the hotspot table
\* ------------------------------------------------------------------------
\* the (community, segment) pairs of the Low and High records, and the number
\* of records of a pair
ComparedGroups ==
    {<<working_df[i].community_area_name, working_df[i].income_segment>> :
        i \in {h \in DOMAIN working_df : working_df[h].income_segment \in {Low, High}}}
GroupCount(k) ==
    Cardinality({i \in DOMAIN working_df :
        <<working_df[i].community_area_name, working_df[i].income_segment>> = k})
ListedGroups == {<<hotspots[j].Community, hotspots[j].Income_Segment>> : j \in DOMAIN hotspots}

\* C14: the hotspot table lists at most 15 (community, segment) groups, each
\* once, all of the Low or High segment and with their number of records, in
\* descending order of that number; every listed group has at least as many
\* records as any group left out; the number of Unknown records is the total
\* minus the Low/High records, and a non-zero number is shown in a caption.
C14_HotspotRanking ==
    hpc = "rendered" =>
        /\ Len(hotspots) <= HotspotLimit
        /\ Len(hotspots) = Cardinality(ListedGroups)
        /\ Cardinality(ListedGroups) =
              (IF Cardinality(ComparedGroups) < HotspotLimit
                  THEN Cardinality(ComparedGroups) ELSE HotspotLimit)
        /\ ListedGroups \subseteq ComparedGroups
        /\ \A j \in DOMAIN hotspots :
             /\ hotspots[j].Income_Segment \in {Low, High}
             /\ hotspots[j].Incidents
                  = GroupCount(<<hotspots[j].Community, hotspots[j].Income_Segment>>)
        /\ \A i, j \in DOMAIN hotspots :
             i < j => hotspots[i].Incidents >= hotspots[j].Incidents
        /\ \A j \in DOMAIN hotspots : \A k \in ComparedGroups \ ListedGroups :
             hotspots[j].Incidents >= GroupCount(k)
        /\ unknown_income_count = Len(working_df) - Len(compare_df)
        /\ st_captions = (IF unknown_income_count = 0 THEN <<>>
                                                     ELSE <<unknown_income_count>>)

\* C14 witness: more than 15 groups, one of them left out with as many records
\* as a listed one, and records without income counted apart
C14_Witness ==
    /\ hpc = "rendered"
    /\ Len(hotspots) = HotspotLimit
    /\ \E k \in ComparedGroups \ ListedGroups :
         GroupCount(k) = hotspots[HotspotLimit].Incidents
    /\ {hotspots[j].Income_Segment : j \in DOMAIN hotspots} = {Low, High}
    /\ st_captions = <<unknown_income_count>>

\* ------------------------------------------------------------------------
\* The dashboard up while the batch report ingests.  The database file holds
\* the tables of an earlier ingestion; the report connects and runs
\* load_data_from_urls, the dashboard loads and is rerun any number of times.
InitCache ==
    /\ CENSUS_DATA \in Tables(MainCensusRows, MaxMainRows)
    /\ CHICAGO_PUBLIC_SCHOOLS \in Tables(MainSchoolRows, MaxMainRows)
    /\ CHICAGO_CRIME_DATA \in Tables(MainCrimeRows, MaxMainRows)
    /\ DashboardAt("load_socio")
    /\ HotspotsIdle
    /\ rpc = "connect"
    /\ conn = "None"
    /\ query_num = 1
    /\ results = <<>>
    /\ stdout = <<>>
    /\ rexception = "none"
    /\ stored = <<>>

NextCache ==
    \/ connect_db
    \/ load_data_from_urls
    \/ load_data_ssl_bypass
    \/ load_data_returns
    \/ load_socioeducation_dataset
    \/ load_crime_dataset
    \/ main_check
    \/ rerun

SpecCache == InitCache /\ [][NextCache]_vars

\* what load_socioeducation_dataset gives when its query runs on the tables as
\* they are now: the exception raised ("none": returned) and the frame
SocioOutcomes ==
    {LET q == run_query({CENSUS_DATA, CHICAGO_PUBLIC_SCHOOLS}, SocioColumns, rs)
         c == CoerceColumns(q.df, SocioNumericCols,
                            [i \in DOMAIN q.df.rows |-> SocioCoerce(q.df.rows[i])])
     IN  <<c.raised, c.df>> :
        rs \in SocioOrdered(SocioGroups(CENSUS_DATA.rows, CHICAGO_PUBLIC_SCHOOLS.rows))}

\* the same for load_crime_dataset
CrimeOutcome ==
    LET q == run_query({CHICAGO_CRIME_DATA, CENSUS_DATA}, CrimeColumns,
                       CrimeQuery(CHICAGO_CRIME_DATA.rows, CENSUS_DATA.rows))
        c == CoerceColumns(q.df, CrimeNumericCols,
                           [i \in DOMAIN q.df.rows |-> CrimeCoerce(q.df.rows[i])])
    IN  <<c.raised, c.df>>

\* C15: every call of a cached loader, also one made after an ingestion has
\* replaced the tables, gives the outcome computed from the tables as they are
\* at the call: never a frame, an empty frame or a failure kept from a snapshot
\* the ingestion has replaced.
C15_CallAfterIngestionIsFresh ==
    [][/\ (dpc = "load_socio" /\ dpc' # "load_socio")
            => <<exception', socio_df'>> \in SocioOutcomes
       /\ (dpc = "load_crime" /\ dpc' # "load_crime")
            => <<exception', crime_df'>> = CrimeOutcome]_vars

\* C16: once store_data_to_db has returned, after any number of runs of the
\* report, each of the three tables holds exactly the rows of the dataset this
\* call was given for it, also when storing one of them failed: no table is
\* left with the rows of an earlier run, or missing, beside a replaced one.
C16_TablesAreThoseOfTheLastRun ==
    stored # <<>> =>
        /\ CENSUS_DATA = Table(stored[1][1])
        /\ CHICAGO_PUBLIC_SCHOOLS = Table(stored[1][2])
        /\ CHICAGO_CRIME_DATA = Table(stored[1][3])
====
